---- MODULE Spec2Model ----
(***************************************************************************)
(* Stake tracker (frame/stake-tracker): the approval-stake ledger          *)
(* (ApprovalStake), the two sorted-list providers it feeds (VoterList,     *)
(* TargetList) and the six OnStakingUpdate hooks, driven                   *)
(*   - as the unit tests drive them: any hook, any identity, any argument  *)
(*     (Spec), and                                                         *)
(*   - as the staking pallet drives them: one lifecycle transition, then   *)
(*     its hook with the accurate previous value (LifeSpec).               *)
(* The pallet's lib.rs and mock.rs are not part of the sources at hand;    *)
(* the hooks follow the assertions of tests.rs and, where the tests are    *)
(* silent, the written specification.                                      *)
(***************************************************************************)
EXTENDS Integers, FiniteSets, Sequences, TLC

VARIABLES
    stake,          \* Staking::stake: identity -> active stake (bonded identities only)
    validators,     \* Staking::is_validator
    nominations,    \* Staking::nominations: nominator -> set of targets
    ApprovalStake,  \* the ledger: target -> aggregated amount (partial)
    VoterList,      \* voter -> score (partial)
    TargetList,     \* target -> score (partial)
    last            \* the call made last: [op, who, arg, res]

vars == <<stake, validators, nominations, ApprovalStake, VoterList, TargetList, last>>

-----------------------------------------------------------------------------
(* The identities of the mock runtime, as the tests name them.             *)
UsualUser    == 1
ValidatorId  == 10
Validator2Id == 11
NominatorId  == 20
NotBonded    == 30

Ids     == {UsualUser, ValidatorId, Validator2Id, NominatorId, NotBonded}
Targets == {ValidatorId, Validator2Id}

(* The identities the tests call the voter hooks with: usual user,         *)
(* validator, nominator, not bonded.                                       *)
Callers == {UsualUser, ValidatorId, NominatorId, NotBonded}

(* The score the tests insert by hand into a list (VoterList::on_insert).  *)
InsertScore == 1000

(* Bounds of the model.                                                    *)
MaxStake   == 2     \* active stakes and previous stakes range over 1..MaxStake
MaxBalance == 3     \* largest amount a ledger entry holds in the model
MaxVoters  == 1     \* largest VoterList the model builds

(* CurrencyToVote: the factor by which a balance is scaled down to a vote  *)
(* (total issuance / u64::MAX, at least 1), scaled to the model's balances.*)
VoteFactor == 2

-----------------------------------------------------------------------------
(* Option<T> as a sequence of length at most one.                          *)
None    == <<>>
Some(x) == <<x>>

(* Partial maps.                                                           *)
Put(f, k, v) == [x \in DOMAIN f \cup {k} |-> IF x = k THEN v ELSE f[x]]
Del(f, k)    == [x \in DOMAIN f \ {k} |-> f[x]]
EmptyMap     == [x \in {} |-> 0]

(* The read-only view of the staking pallet a hook works with.             *)
Staking == [stake |-> stake, validators |-> validators, nominations |-> nominations]

(* The storage a hook may write.                                           *)
Tracker == [ApprovalStake |-> ApprovalStake, VoterList |-> VoterList,
            TargetList |-> TargetList]

Ok(T)    == [panic |-> FALSE, T |-> T]
Panic(T) == [panic |-> TRUE, T |-> T]

-----------------------------------------------------------------------------
(* Score conversion: the balance divided by the factor, rounded down.      *)
to_vote(active) == active \div VoteFactor

(* ApprovalStake::get(t).unwrap_or_default()                               *)
approval_stake(L, t) == IF t \in DOMAIN L THEN L[t] ELSE 0

(* Staking::stake(who).map(|s| s.active).unwrap(): callers check bonding.  *)
active_stake_of(S, who) == S.stake[who]

-----------------------------------------------------------------------------
(* SortedListProvider, as the hooks and the tests use it.                  *)
contains(list, id) == id \in DOMAIN list

(* on_insert: Err (list unchanged) when the id is already present.         *)
on_insert(list, id, score) == IF contains(list, id) THEN list ELSE Put(list, id, score)

(* on_update: overwrite the score of a present id; an absent id is left    *)
(* absent (the hooks drop the Err).                                        *)
on_update(list, id, score) == IF contains(list, id) THEN Put(list, id, score) ELSE list

(* on_remove: drop the id; nothing to do when absent.                      *)
on_remove(list, id) == Del(list, id)

-----------------------------------------------------------------------------
(* Staking::is_validator / Staking::nominations(who).is_some()             *)
is_validator(S, who) == who \in S.validators
is_nominator(S, who) == who \in DOMAIN S.nominations

(* Variant: a nominator's stake moves every validator's approval stake.    *)
backed_targets_all_validators(S, who) ==
    IF is_validator(S, who) THEN {who}
    ELSE IF is_nominator(S, who) THEN S.validators
    ELSE {}

(* The targets whose approval stake moves with who's stake: a validator    *)
(* backs itself, a nominator backs its current nominations.                *)
backed_targets(S, who) ==
    IF is_validator(S, who) THEN {who}
    ELSE IF is_nominator(S, who) THEN S.nominations[who]
    ELSE {}

(* Variant: the previous stake is dropped, the whole stake is the delta.   *)
stake_delta_ignoring_prev(current, prev_stake) == current

(* Variant: the delta is the unsigned difference of the two stakes.        *)
stake_delta_unsigned(current, prev_stake) ==
    LET previous == IF prev_stake = None THEN 0 ELSE prev_stake[1]
    IN  IF current >= previous THEN current - previous ELSE previous - current

(* previous = prev_stake.map(|s| s.active).unwrap_or_default();            *)
(* delta = current - previous, signed.                                     *)
stake_delta(current, prev_stake) ==
    current - (IF prev_stake = None THEN 0 ELSE prev_stake[1])

(* mutate_delta on one entry: created at the delta if absent, otherwise    *)
(* added to.                                                               *)
mutate_delta(L, t, delta) == Put(L, t, approval_stake(L, t) + delta)

(* A delta that would take an entry below zero is not stored.              *)
underflows(L, ts, delta) == \E t \in ts : approval_stake(L, t) + delta < 0

(* Variant: the ledger moves, the TargetList is not told.                  *)
update_approval_stake_ledger_only(T, ts, delta) ==
    [T EXCEPT !.ApprovalStake =
        [t \in DOMAIN T.ApprovalStake \cup ts |->
            IF t \in ts THEN approval_stake(T.ApprovalStake, t) + delta
            ELSE T.ApprovalStake[t]]]

(* Variant: a backed target that is not in the TargetList is put there.    *)
update_approval_stake_inserting_target(T, ts, delta) ==
    LET L2 == [t \in DOMAIN T.ApprovalStake \cup ts |->
                 IF t \in ts THEN approval_stake(T.ApprovalStake, t) + delta
                 ELSE T.ApprovalStake[t]]
    IN  [T EXCEPT !.ApprovalStake = L2,
                  !.TargetList = [t \in DOMAIN T.TargetList \cup ts |->
                                    IF t \in ts THEN L2[t] ELSE T.TargetList[t]]]

(* Variant: an entry that reaches 0 is taken out of the ledger.             *)
update_approval_stake_dropping_zero(T, ts, delta) ==
    LET L2 == [t \in DOMAIN T.ApprovalStake \cup ts |->
                 IF t \in ts THEN approval_stake(T.ApprovalStake, t) + delta
                 ELSE T.ApprovalStake[t]]
        L3 == [t \in {x \in DOMAIN L2 : x \notin ts \/ L2[x] # 0} |-> L2[t]]
    IN  [T EXCEPT !.ApprovalStake = L3,
                  !.TargetList = [t \in DOMAIN T.TargetList |->
                                    IF t \in ts THEN L2[t] ELSE T.TargetList[t]]]

(* update_approval_stake for every backed target: the ledger entry moves   *)
(* by delta and a target present in the TargetList gets the new value.     *)
update_approval_stake(T, ts, delta) ==
    LET L2 == [t \in DOMAIN T.ApprovalStake \cup ts |->
                 IF t \in ts THEN mutate_delta(T.ApprovalStake, t, delta)[t]
                 ELSE T.ApprovalStake[t]]
    IN  [T EXCEPT !.ApprovalStake = L2,
                  !.TargetList = [t \in DOMAIN T.TargetList |->
                                    IF t \in ts THEN L2[t] ELSE T.TargetList[t]]]

(* Variant: the voter's score is left as it is.                            *)
update_voter_score_skipped(T, who, active) == T

(* VoterList::on_update(who, to_vote(current_active))                      *)
update_voter_score(T, who, active) ==
    [T EXCEPT !.VoterList = on_update(T.VoterList, who, to_vote(active))]

(* Variant: an identity that is neither validator nor nominator still has  *)
(* its VoterList score refreshed.                                          *)
on_stake_update_refreshing_idle(S, T, who, prev_stake) ==
    IF who \notin DOMAIN S.stake THEN Panic(T)
    ELSE LET current == active_stake_of(S, who)
             delta   == stake_delta(current, prev_stake)
             ts      == backed_targets(S, who)
         IN  IF underflows(T.ApprovalStake, ts, delta) THEN Panic(T)
             ELSE Ok(update_voter_score(update_approval_stake(T, ts, delta), who, current))

(* Variant: a delta that would take an entry below zero stores 0 and the   *)
(* call returns.                                                           *)
on_stake_update_clamping(S, T, who, prev_stake) ==
    IF who \notin DOMAIN S.stake THEN Panic(T)
    ELSE LET current == active_stake_of(S, who)
             delta   == stake_delta(current, prev_stake)
             ts      == backed_targets(S, who)
             moved(t) == approval_stake(T.ApprovalStake, t) + delta
             L2      == [t \in DOMAIN T.ApprovalStake \cup ts |->
                           IF t \in ts THEN (IF moved(t) < 0 THEN 0 ELSE moved(t))
                           ELSE T.ApprovalStake[t]]
             T2      == [T EXCEPT !.ApprovalStake = L2,
                                  !.TargetList = [t \in DOMAIN T.TargetList |->
                                        IF t \in ts THEN L2[t] ELSE T.TargetList[t]]]
         IN  IF ~(is_validator(S, who) \/ is_nominator(S, who)) THEN Ok(T)
             ELSE Ok(update_voter_score(T2, who, current))

(* Variant: a call whose delta is 0 returns without writing anything.      *)
on_stake_update_zero_delta_fast_path(S, T, who, prev_stake) ==
    IF who \notin DOMAIN S.stake THEN Panic(T)
    ELSE LET current == active_stake_of(S, who)
             delta   == stake_delta(current, prev_stake)
             ts      == backed_targets(S, who)
         IN  IF ~(is_validator(S, who) \/ is_nominator(S, who)) THEN Ok(T)
             ELSE IF delta = 0 THEN Ok(T)
             ELSE IF underflows(T.ApprovalStake, ts, delta) THEN Panic(T)
             ELSE Ok(update_voter_score(update_approval_stake(T, ts, delta), who, current))

(* OnStakingUpdate::on_stake_update                                        *)
on_stake_update(S, T, who, prev_stake) ==
    IF who \notin DOMAIN S.stake THEN Panic(T)
    ELSE LET current == active_stake_of(S, who)
             delta   == stake_delta(current, prev_stake)
             ts      == backed_targets(S, who)
         IN  IF ~(is_validator(S, who) \/ is_nominator(S, who)) THEN Ok(T)
             ELSE IF underflows(T.ApprovalStake, ts, delta) THEN Panic(T)
             ELSE Ok(update_voter_score(update_approval_stake(T, ts, delta), who, current))

(* Variant: a missing stake record counts as an active stake of 0.         *)
on_nominator_update_unwrap_or_default(S, T, who, prev_nominations) ==
    Ok([T EXCEPT !.VoterList =
          on_insert(T.VoterList, who,
                    to_vote(IF who \in DOMAIN S.stake THEN S.stake[who] ELSE 0))])

(* Variant: the nominator's score is overwritten if it is in the list and  *)
(* nothing is inserted.                                                    *)
on_nominator_update_overwrite_only(S, T, who, prev_nominations) ==
    IF who \notin DOMAIN S.stake THEN Panic(T)
    ELSE Ok([T EXCEPT !.VoterList =
                on_update(T.VoterList, who, to_vote(active_stake_of(S, who)))])

(* Variant: the score of an identity already in the list is overwritten.   *)
on_nominator_update_overwriting(S, T, who, prev_nominations) ==
    IF who \notin DOMAIN S.stake THEN Panic(T)
    ELSE Ok([T EXCEPT !.VoterList =
                Put(T.VoterList, who, to_vote(active_stake_of(S, who)))])

(* OnStakingUpdate::on_nominator_update: the previous nominations are not  *)
(* looked at; the nominator is put into the VoterList unless present.      *)
on_nominator_update(S, T, who, prev_nominations) ==
    IF who \notin DOMAIN S.stake THEN Panic(T)
    ELSE Ok([T EXCEPT !.VoterList =
                on_insert(T.VoterList, who, to_vote(active_stake_of(S, who)))])

(* Variant: a missing stake record counts as an active stake of 0.         *)
on_validator_add_unwrap_or_default(S, T, who) ==
    Ok([T EXCEPT !.VoterList =
          on_insert(T.VoterList, who,
                    to_vote(IF who \in DOMAIN S.stake THEN S.stake[who] ELSE 0))])

(* Variant: the score of an identity already in the list is overwritten.   *)
on_validator_add_overwriting(S, T, who) ==
    IF who \notin DOMAIN S.stake THEN Panic(T)
    ELSE Ok([T EXCEPT !.VoterList =
                Put(T.VoterList, who, to_vote(active_stake_of(S, who)))])

(* OnStakingUpdate::on_validator_add                                       *)
on_validator_add(S, T, who) ==
    IF who \notin DOMAIN S.stake THEN Panic(T)
    ELSE Ok([T EXCEPT !.VoterList =
                on_insert(T.VoterList, who, to_vote(active_stake_of(S, who)))])

(* Variant: the removal asks for a stake record first.                     *)
on_validator_remove_requiring_stake(S, T, who) ==
    IF who \notin DOMAIN S.stake THEN Panic(T)
    ELSE Ok([T EXCEPT !.VoterList = on_remove(T.VoterList, who)])

(* OnStakingUpdate::on_validator_remove                                    *)
on_validator_remove(S, T, who) ==
    Ok([T EXCEPT !.VoterList = on_remove(T.VoterList, who)])

(* OnStakingUpdate::on_nominator_remove                                    *)
on_nominator_remove(S, T, who, nominations_) ==
    Ok([T EXCEPT !.VoterList = on_remove(T.VoterList, who)])

(* Variant: the identity that leaves is taken out of the VoterList.        *)
on_unstake_removing_voter(S, T, who) ==
    Ok([T EXCEPT !.VoterList = on_remove(T.VoterList, who)])

(* OnStakingUpdate::on_unstake                                             *)
on_unstake(S, T, who) == Ok(T)

-----------------------------------------------------------------------------
(* Argument domains of the calls.                                          *)
PrevStakes  == {None} \cup {Some(a) : a \in 1..MaxStake}
TargetSeqs  == {<<>>, <<ValidatorId>>}
TargetSets  == (SUBSET Targets) \ {{}}

(* The balances the model can hold.                                        *)
Within(T) == \A t \in DOMAIN T.ApprovalStake : T.ApprovalStake[t] <= MaxBalance

(* A hook call returns: the storage is the hook's result (a panic leaves   *)
(* the storage as it was) and the call is recorded.                        *)
Returns(r, op, who, arg) ==
    /\ Within(r.T)
    /\ ApprovalStake' = r.T.ApprovalStake
    /\ VoterList' = r.T.VoterList
    /\ TargetList' = r.T.TargetList
    /\ last' = [op |-> op, who |-> who, arg |-> arg,
                res |-> IF r.panic THEN "panic" ELSE "ok"]

StakingUnchanged == UNCHANGED <<stake, validators, nominations>>

-----------------------------------------------------------------------------
(* The staking mock of the tests: 1 bonded and idle, 10 and 11 validators, *)
(* 20 a nominator of 10 or of 10 and 11, 30 not bonded; the validators     *)
(* hold one active stake, the others another; empty ledger and lists.      *)
Init ==
    /\ \E a \in 1..MaxStake, b \in 1..MaxStake :
          stake = [i \in Ids \ {NotBonded} |-> IF i \in Targets THEN a ELSE b]
    /\ validators = Targets
    /\ nominations \in {[n \in {NominatorId} |-> ts] : ts \in {{ValidatorId}, Targets}}
    /\ ApprovalStake = EmptyMap
    /\ VoterList = EmptyMap
    /\ TargetList = EmptyMap
    /\ last = [op |-> "init", who |-> UsualUser, arg |-> <<>>, res |-> "ok"]

CallStakeUpdate ==
    \E who \in Ids, prev \in PrevStakes :
        /\ Returns(on_stake_update(Staking, Tracker, who, prev), "on_stake_update", who, prev)
        /\ StakingUnchanged

CallNominatorUpdate ==
    \E who \in Callers, prev \in TargetSeqs :
        /\ Returns(on_nominator_update(Staking, Tracker, who, prev),
                   "on_nominator_update", who, prev)
        /\ Cardinality(DOMAIN VoterList') <= MaxVoters
        /\ StakingUnchanged

CallValidatorAdd ==
    \E who \in Callers :
        /\ Returns(on_validator_add(Staking, Tracker, who), "on_validator_add", who, <<>>)
        /\ Cardinality(DOMAIN VoterList') <= MaxVoters
        /\ StakingUnchanged

CallValidatorRemove ==
    \E who \in Callers :
        /\ Returns(on_validator_remove(Staking, Tracker, who), "on_validator_remove", who, <<>>)
        /\ StakingUnchanged

CallNominatorRemove ==
    \E who \in Callers, noms \in {<<>>} :
        /\ Returns(on_nominator_remove(Staking, Tracker, who, noms),
                   "on_nominator_remove", who, noms)
        /\ StakingUnchanged

CallUnstake ==
    \E who \in Callers :
        /\ Returns(on_unstake(Staking, Tracker, who), "on_unstake", who, <<>>)
        /\ StakingUnchanged

(* The tests put identities into the lists by hand: a voter at a score of  *)
(* their choosing, a target at its approval stake so far (0 with no entry).*)
InsertVoter ==
    \E who \in Callers :
        /\ ~contains(VoterList, who)
        /\ Cardinality(DOMAIN VoterList) < MaxVoters
        /\ VoterList' = on_insert(VoterList, who, InsertScore)
        /\ last' = [op |-> "VoterList::on_insert", who |-> who, arg |-> <<>>, res |-> "ok"]
        /\ UNCHANGED <<ApprovalStake, TargetList>>
        /\ StakingUnchanged

InsertTarget ==
    \E t \in Targets :
        /\ ~contains(TargetList, t)
        /\ TargetList' = on_insert(TargetList, t, approval_stake(ApprovalStake, t))
        /\ last' = [op |-> "TargetList::on_insert", who |-> t, arg |-> <<>>, res |-> "ok"]
        /\ UNCHANGED <<ApprovalStake, VoterList>>
        /\ StakingUnchanged

Next ==
    \/ CallStakeUpdate
    \/ CallNominatorUpdate
    \/ CallValidatorAdd
    \/ CallValidatorRemove
    \/ CallNominatorRemove
    \/ CallUnstake
    \/ InsertVoter
    \/ InsertTarget

Spec == Init /\ [][Next]_vars

-----------------------------------------------------------------------------
(* The staking pallet as the caller: one lifecycle transition of the       *)
(* staking state, then the hook that belongs to it, with the value the     *)
(* transition replaced as the hook's previous value.  A hook that panics   *)
(* fails the whole transition: nothing of it is committed.                 *)

RECURSIVE SetToSeq(_)
SetToSeq(ts) ==
    IF ts = {} THEN <<>>
    ELSE LET m == CHOOSE x \in ts : \A y \in ts : x <= y
         IN  <<m>> \o SetToSeq(ts \ {m})

Stakers == Targets \cup {NominatorId}

Commit(S2, r, op, who, arg) ==
    /\ ~r.panic
    /\ stake' = S2.stake
    /\ validators' = S2.validators
    /\ nominations' = S2.nominations
    /\ Returns(r, op, who, arg)

IsIdle(who) == who \in DOMAIN stake /\ who \notin validators /\ who \notin DOMAIN nominations

(* bond: a stake record appears; on_stake_update(who, None).               *)
Bond ==
    \E who \in Stakers, a \in 1..MaxStake :
        /\ who \notin DOMAIN stake
        /\ LET S2 == [Staking EXCEPT !.stake = Put(stake, who, a)]
           IN  Commit(S2, on_stake_update(S2, Tracker, who, None),
                      "on_stake_update", who, None)

(* bond_extra, unbond, slash: the active stake changes;                    *)
(* on_stake_update(who, Some(the stake before)).                           *)
ChangeStake ==
    \E who \in Stakers, a \in 1..MaxStake :
        /\ who \in DOMAIN stake
        /\ a # stake[who]
        /\ LET S2 == [Staking EXCEPT !.stake = Put(stake, who, a)]
           IN  Commit(S2, on_stake_update(S2, Tracker, who, Some(stake[who])),
                      "on_stake_update", who, Some(stake[who]))

(* validate: on_validator_add(who).                                        *)
Validate ==
    \E who \in Targets :
        /\ IsIdle(who)
        /\ LET S2 == [Staking EXCEPT !.validators = validators \cup {who}]
           IN  Commit(S2, on_validator_add(S2, Tracker, who), "on_validator_add", who, <<>>)

(* chill of a validator: on_validator_remove(who).                         *)
StopValidating ==
    \E who \in validators :
        LET S2 == [Staking EXCEPT !.validators = validators \ {who}]
        IN  Commit(S2, on_validator_remove(S2, Tracker, who),
                   "on_validator_remove", who, <<>>)

(* nominate by an idle staker: on_nominator_update(who, []).               *)
Nominate ==
    \E who \in {NominatorId}, ts \in TargetSets :
        /\ IsIdle(who)
        /\ LET S2 == [Staking EXCEPT !.nominations = Put(nominations, who, ts)]
           IN  Commit(S2, on_nominator_update(S2, Tracker, who, <<>>),
                      "on_nominator_update", who, <<>>)

(* nominate by a nominator: on_nominator_update(who, the targets before).  *)
ChangeNominations ==
    \E who \in DOMAIN nominations, ts \in TargetSets :
        /\ ts # nominations[who]
        /\ LET S2 == [Staking EXCEPT !.nominations = Put(nominations, who, ts)]
           IN  Commit(S2, on_nominator_update(S2, Tracker, who, SetToSeq(nominations[who])),
                      "on_nominator_update", who, SetToSeq(nominations[who]))

(* chill of a nominator: on_nominator_remove(who, its targets).            *)
StopNominating ==
    \E who \in DOMAIN nominations :
        LET S2 == [Staking EXCEPT !.nominations = Del(nominations, who)]
        IN  Commit(S2, on_nominator_remove(S2, Tracker, who, SetToSeq(nominations[who])),
                   "on_nominator_remove", who, SetToSeq(nominations[who]))

(* withdraw of everything by an idle staker: on_unstake(who).              *)
Withdraw ==
    \E who \in Stakers :
        /\ IsIdle(who)
        /\ LET S2 == [Staking EXCEPT !.stake = Del(stake, who)]
           IN  Commit(S2, on_unstake(S2, Tracker, who), "on_unstake", who, <<>>)

(* Nobody bonded; ledger and lists empty.                                  *)
LifeInit ==
    /\ stake = EmptyMap
    /\ validators = {}
    /\ nominations = EmptyMap
    /\ ApprovalStake = EmptyMap
    /\ VoterList = EmptyMap
    /\ TargetList = EmptyMap
    /\ last = [op |-> "init", who |-> UsualUser, arg |-> <<>>, res |-> "ok"]

LifeNext ==
    \/ Bond
    \/ ChangeStake
    \/ Validate
    \/ StopValidating
    \/ Nominate
    \/ ChangeNominations
    \/ StopNominating
    \/ Withdraw

LifeSpec == LifeInit /\ [][LifeNext]_vars

-----------------------------------------------------------------------------
(* The harness of works_for_validators_and_nominators alone: identities    *)
(* are put into the two lists by hand, each at the score the test picks,   *)
(* whatever the ledger holds, and on_stake_update is called.               *)
InsertTargetAtScore ==
    \E t \in Targets :
        /\ ~contains(TargetList, t)
        /\ TargetList' = on_insert(TargetList, t, InsertScore)
        /\ last' = [op |-> "TargetList::on_insert", who |-> t, arg |-> <<>>, res |-> "ok"]
        /\ UNCHANGED <<ApprovalStake, VoterList>>
        /\ StakingUnchanged

RefreshNext ==
    \/ CallStakeUpdate
    \/ InsertVoter
    \/ InsertTargetAtScore

RefreshSpec == Init /\ [][RefreshNext]_vars

-----------------------------------------------------------------------------
(* The mock with stakes that move: the hooks' ledger is built up by        *)
(* on_stake_update calls, targets are put into the TargetList at their     *)
(* approval stake so far, and the active stake of a validator or nominator *)
(* changes, followed by on_stake_update(who, Some(the stake before)).      *)
RoundTripNext ==
    \/ CallStakeUpdate
    \/ InsertTarget
    \/ ChangeStake

RoundTripSpec == Init /\ [][RoundTripNext]_vars

-----------------------------------------------------------------------------
(* What a call recorded in last looks like.                                *)
Call(op, who, arg, res) == [op |-> op, who |-> who, arg |-> arg, res |-> res]

TrackerUnchanged == UNCHANGED <<ApprovalStake, VoterList, TargetList>>

RECURSIVE SumStake(_)
SumStake(ns) ==
    IF ns = {} THEN 0
    ELSE LET n == CHOOSE x \in ns : TRUE
         IN  stake[n] + SumStake(ns \ {n})

(* The approval stake of t by the staking state: its own active stake if   *)
(* it validates, plus the active stake of every nominator backing it.      *)
Aggregate(t) ==
    (IF t \in validators THEN stake[t] ELSE 0)
    + SumStake({n \in DOMAIN nominations : t \in nominations[n]})

(* C1: in every state the staking lifecycle reaches, every target with a   *)
(* ledger entry has ApprovalStake[t] = its own active stake if it is a     *)
(* validator, plus the active stakes of the nominators nominating it.      *)
C1_LedgerIsAggregate ==
    \A t \in DOMAIN ApprovalStake : ApprovalStake[t] = Aggregate(t)

(* C2: every target present in the TargetList has the ledger's value as    *)
(* its score, after any sequence of hooks.                                 *)
C2_TargetListMirrorsLedger ==
    \A t \in DOMAIN TargetList : TargetList[t] = approval_stake(ApprovalStake, t)

C2_Witness ==
    /\ last = Call("on_stake_update", NominatorId, None, "ok")
    /\ DOMAIN TargetList = Targets
    /\ nominations[NominatorId] = Targets
    /\ TargetList[ValidatorId] = MaxBalance
    /\ TargetList[Validator2Id] = stake[NominatorId]

(* C3: along the staking lifecycle every voter present in the VoterList    *)
(* has the score to_vote(its active stake).                                *)
C3_VoterListMirrorsStake ==
    \A v \in DOMAIN VoterList :
        v \in DOMAIN stake /\ VoterList[v] = to_vote(stake[v])

C3_Witness ==
    /\ last = Call("on_stake_update", ValidatorId, Some(1), "ok")
    /\ stake[ValidatorId] = MaxStake
    /\ ValidatorId \in DOMAIN VoterList
    /\ VoterList[ValidatorId] # to_vote(1)
    /\ NominatorId \in DOMAIN VoterList

(* C4: a call on_stake_update(who, prev) on a validator that returns moves *)
(* ApprovalStake[who] (0 if there was no entry) by delta = active stake -  *)
(* previous active stake (0 for None), for either sign of delta; who's     *)
(* TargetList score, if present, is the new ledger value and who's         *)
(* VoterList score, if present, is to_vote(active stake).                  *)
C4_StakeUpdateValidator ==
    [][\A who \in validators, prev \in PrevStakes :
         last' = Call("on_stake_update", who, prev, "ok") =>
            /\ who \in DOMAIN ApprovalStake'
            /\ ApprovalStake'[who] =
                 approval_stake(ApprovalStake, who)
                 + (stake[who] - (IF prev = None THEN 0 ELSE prev[1]))
            /\ who \in DOMAIN TargetList' => TargetList'[who] = ApprovalStake'[who]
            /\ who \in DOMAIN VoterList' => VoterList'[who] = to_vote(stake[who])
            /\ DOMAIN TargetList' = DOMAIN TargetList
            /\ DOMAIN VoterList' = DOMAIN VoterList]_vars

C4_Witness ==
    /\ last = Call("on_stake_update", ValidatorId, Some(MaxStake), "ok")
    /\ stake[ValidatorId] = 1
    /\ ValidatorId \in DOMAIN ApprovalStake
    /\ ApprovalStake[ValidatorId] = 1
    /\ ValidatorId \in DOMAIN TargetList
    /\ ValidatorId \in DOMAIN VoterList

(* C5: a call on_stake_update(who, prev) on a nominator that returns moves *)
(* the ledger entry of every target who nominates by delta (creating it)   *)
(* and sets the TargetList score of each such target that is present to    *)
(* the new value; entries of other targets stay as they are; who's         *)
(* VoterList score, if present, is to_vote(active stake).                  *)
C5_StakeUpdateNominator ==
    [][\A who \in DOMAIN nominations, prev \in PrevStakes :
         last' = Call("on_stake_update", who, prev, "ok") =>
            /\ \A t \in nominations[who] :
                 /\ t \in DOMAIN ApprovalStake'
                 /\ ApprovalStake'[t] =
                      approval_stake(ApprovalStake, t)
                      + (stake[who] - (IF prev = None THEN 0 ELSE prev[1]))
                 /\ t \in DOMAIN TargetList' => TargetList'[t] = ApprovalStake'[t]
            /\ \A t \in Ids \ nominations[who] :
                 /\ t \in DOMAIN ApprovalStake' <=> t \in DOMAIN ApprovalStake
                 /\ t \in DOMAIN ApprovalStake => ApprovalStake'[t] = ApprovalStake[t]
            /\ who \in DOMAIN VoterList' => VoterList'[who] = to_vote(stake[who])]_vars

C5_Witness ==
    /\ last = Call("on_stake_update", NominatorId, None, "ok")
    /\ nominations[NominatorId] = {ValidatorId}
    /\ Validator2Id \in DOMAIN ApprovalStake
    /\ ApprovalStake[ValidatorId] > stake[NominatorId]
    /\ ValidatorId \in DOMAIN TargetList
    /\ NominatorId \in DOMAIN VoterList

(* C6: on_stake_update on a bonded identity that is neither validator nor  *)
(* nominator returns and changes neither the ledger nor a list, whatever   *)
(* the previous stake, also when the identity sits in the VoterList at a   *)
(* score that is not to_vote(its active stake).                            *)
C6_StakeUpdateIdleNoop ==
    [][\A who \in DOMAIN stake :
         (/\ who \notin validators
          /\ who \notin DOMAIN nominations
          /\ last'.op = "on_stake_update"
          /\ last'.who = who)
         => last'.res = "ok" /\ TrackerUnchanged]_vars

C6_Witness ==
    /\ last = Call("on_stake_update", UsualUser, Some(1), "ok")
    /\ stake[UsualUser] = MaxStake
    /\ UsualUser \in DOMAIN VoterList
    /\ VoterList[UsualUser] = InsertScore
    /\ VoterList[UsualUser] # to_vote(stake[UsualUser])

(* C7: on_stake_update and on_nominator_update on an identity without a    *)
(* stake record panic, whatever the argument and the state, and leave the  *)
(* ledger and both lists as they were.                                     *)
C7_PanicsWhenNotBonded ==
    [][\A who \in Ids \ DOMAIN stake :
         (/\ last'.op \in {"on_stake_update", "on_nominator_update"}
          /\ last'.who = who)
         => last'.res = "panic" /\ TrackerUnchanged]_vars

C7_Witness ==
    /\ last = Call("on_nominator_update", NotBonded, <<ValidatorId>>, "panic")
    /\ NotBonded \notin DOMAIN VoterList
    /\ DOMAIN ApprovalStake = Targets
    /\ DOMAIN TargetList = Targets

(* C8: on_validator_add on an identity without a stake record panics: it   *)
(* neither returns nor puts the identity into the VoterList.               *)
C8_ValidatorAddPanicsWhenNotBonded ==
    [][\A who \in Ids \ DOMAIN stake :
         (last'.op = "on_validator_add" /\ last'.who = who)
         => last'.res = "panic" /\ VoterList' = VoterList]_vars

C8_Witness ==
    /\ last = Call("on_validator_add", NotBonded, <<>>, "panic")
    /\ NotBonded \notin DOMAIN VoterList
    /\ VoterList = EmptyMap

(* C9: on_validator_add on a bonded identity leaves everything as it is    *)
(* when the identity is in the VoterList (its score included) and          *)
(* otherwise puts it there at to_vote(its active stake); the ledger and    *)
(* the TargetList stay as they are.                                        *)
C9_ValidatorAdd ==
    [][\A who \in DOMAIN stake :
         (last'.op = "on_validator_add" /\ last'.who = who) =>
            /\ last'.res = "ok"
            /\ UNCHANGED <<ApprovalStake, TargetList>>
            /\ IF who \in DOMAIN VoterList
               THEN VoterList' = VoterList
               ELSE VoterList' = Put(VoterList, who, to_vote(stake[who]))]_vars

C9_Witness ==
    /\ last = Call("on_validator_add", UsualUser, <<>>, "ok")
    /\ stake[UsualUser] = MaxStake
    /\ UsualUser \in DOMAIN VoterList
    /\ VoterList[UsualUser] = to_vote(MaxStake)
    /\ DOMAIN ApprovalStake = Targets
    /\ DOMAIN TargetList = Targets

Range(q) == {q[i] : i \in DOMAIN q}

(* C10: on_nominator_update(who, previous_targets) takes who's active      *)
(* stake off the ledger entry of every previous target who no longer       *)
(* nominates, adds it to the entry of every nominated target that is not   *)
(* in previous_targets, leaves the other entries alone and gives each      *)
(* changed target present in the TargetList its new ledger value.          *)
C10_NominatorUpdateRebacks ==
    [][\A who \in DOMAIN nominations, prev \in TargetSeqs :
         last' = Call("on_nominator_update", who, prev, "ok") =>
            /\ \A t \in Range(prev) \ nominations[who] :
                 /\ approval_stake(ApprovalStake', t)
                      = approval_stake(ApprovalStake, t) - stake[who]
                 /\ t \in DOMAIN TargetList' => TargetList'[t] = ApprovalStake'[t]
            /\ \A t \in nominations[who] \ Range(prev) :
                 /\ approval_stake(ApprovalStake', t)
                      = approval_stake(ApprovalStake, t) + stake[who]
                 /\ t \in DOMAIN TargetList' => TargetList'[t] = ApprovalStake'[t]
            /\ \A t \in Ids \ ((Range(prev) \ nominations[who])
                               \cup (nominations[who] \ Range(prev))) :
                 approval_stake(ApprovalStake', t) = approval_stake(ApprovalStake, t)]_vars

(* C11: on_nominator_update(who, previous_targets) never changes who is in  *)
(* the VoterList: an absent who stays absent, and a present who has its    *)
(* score overwritten with to_vote(its active stake), also when             *)
(* previous_targets equals the current targets.                            *)
C11_NominatorUpdateKeepsMembership ==
    [][\A who \in Ids, prev \in TargetSeqs :
         (/\ last'.op = "on_nominator_update"
          /\ last'.who = who
          /\ last'.arg = prev)
         => /\ DOMAIN VoterList' = DOMAIN VoterList
            /\ (last'.res = "ok" /\ who \in DOMAIN VoterList)
                 => VoterList'[who] = to_vote(stake[who])]_vars

(* C12: after on_nominator_update(who, previous_targets) on a bonded who    *)
(* (idle, validator or nominator) that was not in the VoterList, who is in *)
(* the VoterList with the score to_vote(its active stake).                 *)
C12_NominatorUpdateInsertsAbsent ==
    [][\A who \in DOMAIN stake :
         (/\ last'.op = "on_nominator_update"
          /\ last'.who = who
          /\ who \notin DOMAIN VoterList)
         => /\ last'.res = "ok"
            /\ who \in DOMAIN VoterList'
            /\ VoterList'[who] = to_vote(stake[who])]_vars

C12_Witness ==
    /\ last = Call("on_nominator_update", NominatorId, <<ValidatorId>>, "ok")
    /\ stake[NominatorId] = MaxStake
    /\ DOMAIN VoterList = {NominatorId}
    /\ VoterList[NominatorId] = to_vote(MaxStake)
    /\ VoterList[NominatorId] # InsertScore

(* C13: on_nominator_update(who, []) on a bonded who (idle, validator, or  *)
(* nominator with nominations) that is in the VoterList returns and writes *)
(* nothing: the ledger, the TargetList and the VoterList, who's score      *)
(* included, are as before.                                                *)
C13_NominatorUpdateNoopWhenPresent ==
    [][\A who \in DOMAIN stake :
         (/\ last'.op = "on_nominator_update"
          /\ last'.who = who
          /\ last'.arg = <<>>
          /\ who \in DOMAIN VoterList)
         => last'.res = "ok" /\ TrackerUnchanged]_vars

C13_Witness ==
    /\ last = Call("on_nominator_update", NominatorId, <<>>, "ok")
    /\ nominations[NominatorId] = Targets
    /\ NominatorId \in DOMAIN VoterList
    /\ VoterList[NominatorId] = InsertScore
    /\ DOMAIN ApprovalStake = {ValidatorId}
    /\ ApprovalStake[ValidatorId] = stake[ValidatorId]
    /\ DOMAIN TargetList = Targets

(* C14: on_validator_remove(who) and on_nominator_remove(who, nominations)  *)
(* return for every who, with or without a stake record; who is no longer  *)
(* in the VoterList and the other voters are as before (nothing changes    *)
(* when who was absent); the ledger and the TargetList are as before; and  *)
(* the same call made again on the state reached changes nothing.          *)
C14_RemoveHooks ==
    [][\A who \in Ids :
         (/\ last'.op \in {"on_validator_remove", "on_nominator_remove"}
          /\ last'.who = who)
         => /\ last'.res = "ok"
            /\ VoterList' = [v \in DOMAIN VoterList \ {who} |-> VoterList[v]]
            /\ who \notin DOMAIN VoterList => VoterList' = VoterList
            /\ UNCHANGED <<ApprovalStake, TargetList>>
            /\ LET again == IF last'.op = "on_validator_remove"
                            THEN on_validator_remove(Staking, Tracker, who)'
                            ELSE on_nominator_remove(Staking, Tracker, who, last.arg)'
               IN  ~again.panic /\ again.T = Tracker']_vars

C14_Witness ==
    /\ last = Call("on_validator_remove", NotBonded, <<>>, "ok")
    /\ NotBonded \notin DOMAIN stake
    /\ VoterList = EmptyMap
    /\ DOMAIN ApprovalStake = Targets
    /\ DOMAIN TargetList = Targets

(* C15: on_unstake(who) returns and leaves the ledger, the VoterList and   *)
(* the TargetList as they were, for every who (idle, validator, nominator, *)
(* not bonded) and every state, whether who is in the VoterList or not.    *)
C15_UnstakeNoop ==
    [][\A who \in Ids :
         (last'.op = "on_unstake" /\ last'.who = who)
         => last'.res = "ok" /\ TrackerUnchanged]_vars

C15_Witness ==
    /\ last = Call("on_unstake", NotBonded, <<>>, "ok")
    /\ NotBonded \in DOMAIN VoterList
    /\ DOMAIN ApprovalStake = Targets
    /\ DOMAIN TargetList = Targets

(* C16: on_stake_update never changes who is in a list: for every who,     *)
(* previous stake and state the ids in the VoterList and the ids in the    *)
(* TargetList are the same before and after the call, and an id whose      *)
(* score changed was in the list before; so a target can have a ledger     *)
(* entry without being in the TargetList.                                  *)
C16_StakeUpdateKeepsMembership ==
    [][last'.op = "on_stake_update"
         => /\ DOMAIN VoterList' = DOMAIN VoterList
            /\ DOMAIN TargetList' = DOMAIN TargetList]_vars

C16_Witness ==
    /\ last = Call("on_stake_update", NominatorId, None, "ok")
    /\ nominations[NominatorId] = Targets
    /\ DOMAIN ApprovalStake = Targets
    /\ DOMAIN TargetList = {ValidatorId}
    /\ Validator2Id \notin DOMAIN TargetList
    /\ ApprovalStake[Validator2Id] = stake[NominatorId]
    /\ VoterList = EmptyMap

(* C17: ledger underflow is surfaced, not clamped: no hook ever stores a    *)
(* negative amount, and an on_stake_update on a validator or nominator     *)
(* whose delta would take the entry of a backed target below zero (a       *)
(* previous stake larger than what the entry holds) panics and leaves the  *)
(* ledger and the lists as they were, instead of storing 0.                *)
C17_UnderflowSurfaced ==
    [][/\ \A t \in DOMAIN ApprovalStake' : ApprovalStake'[t] >= 0
       /\ \A who \in DOMAIN stake, prev \in PrevStakes :
            (/\ last' = Call("on_stake_update", who, prev, last'.res)
             /\ who \in validators \/ who \in DOMAIN nominations
             /\ \E t \in (IF who \in validators THEN {who} ELSE nominations[who]) :
                   approval_stake(ApprovalStake, t)
                   + (stake[who] - (IF prev = None THEN 0 ELSE prev[1])) < 0)
            => last'.res = "panic" /\ TrackerUnchanged]_vars

C17_Witness ==
    /\ last = Call("on_stake_update", NominatorId, Some(MaxStake), "panic")
    /\ stake[NominatorId] = 1
    /\ nominations[NominatorId] = Targets
    /\ DOMAIN ApprovalStake = Targets
    /\ ApprovalStake[ValidatorId] > 0
    /\ ApprovalStake[Validator2Id] = 0
    /\ DOMAIN TargetList = Targets

(* C18: ledger entries are never dropped implicitly: no hook call takes a   *)
(* target out of the ledger, and an on_stake_update with a negative delta  *)
(* that brings the entry of a backed target to 0 leaves the entry in the   *)
(* ledger with the value 0.                                                *)
C18_LedgerEntriesPersist ==
    [][/\ DOMAIN ApprovalStake \subseteq DOMAIN ApprovalStake'
       /\ \A who \in DOMAIN stake, prev \in PrevStakes :
            (/\ last' = Call("on_stake_update", who, prev, "ok")
             /\ who \in validators \/ who \in DOMAIN nominations)
            => \A t \in (IF who \in validators THEN {who} ELSE nominations[who]) :
                 (/\ t \in DOMAIN ApprovalStake
                  /\ ApprovalStake[t]
                       + (stake[who] - (IF prev = None THEN 0 ELSE prev[1])) = 0)
                 => t \in DOMAIN ApprovalStake' /\ ApprovalStake'[t] = 0]_vars

C18_Witness ==
    /\ last = Call("on_stake_update", ValidatorId, Some(MaxStake), "ok")
    /\ stake[ValidatorId] = 1
    /\ ValidatorId \in DOMAIN ApprovalStake
    /\ ApprovalStake[ValidatorId] = 0
    /\ ValidatorId \in DOMAIN TargetList
    /\ TargetList[ValidatorId] = 0

(* C19: an on_stake_update on a validator or nominator whose previous      *)
(* active stake equals the current one returns; the ledger values are as   *)
(* before; every backed target that is in the TargetList has the ledger    *)
(* value as its score afterwards and who, if in the VoterList, has the     *)
(* score to_vote(active stake), whatever the scores were before.           *)
C19_ZeroDeltaRefreshes ==
    [][\A who \in DOMAIN stake :
         (/\ last'.op = "on_stake_update"
          /\ last'.who = who
          /\ last'.arg = Some(stake[who])
          /\ who \in validators \/ who \in DOMAIN nominations)
         => /\ last'.res = "ok"
            /\ \A t \in Ids :
                 approval_stake(ApprovalStake', t) = approval_stake(ApprovalStake, t)
            /\ \A t \in (IF who \in validators THEN {who} ELSE nominations[who]) :
                 t \in DOMAIN TargetList =>
                    /\ t \in DOMAIN TargetList'
                    /\ TargetList'[t] = approval_stake(ApprovalStake, t)
            /\ who \in DOMAIN VoterList =>
                 /\ who \in DOMAIN VoterList'
                 /\ VoterList'[who] = to_vote(stake[who])]_vars

C19_Witness ==
    /\ last = Call("on_stake_update", NominatorId, Some(MaxStake), "ok")
    /\ stake[NominatorId] = MaxStake
    /\ nominations[NominatorId] = {ValidatorId}
    /\ DOMAIN TargetList = Targets
    /\ TargetList[ValidatorId] = approval_stake(ApprovalStake, ValidatorId)
    /\ TargetList[Validator2Id] = InsertScore
    /\ NominatorId \in DOMAIN VoterList
    /\ VoterList[NominatorId] = to_vote(MaxStake)

(* C20: stake-update round trip.  When the active stake of a validator or  *)
(* nominator goes a -> b with on_stake_update(who, Some(a)), from a ledger *)
(* in which the entry of every backed target is at least a, then the       *)
(* change back b -> a with on_stake_update(who, Some(b)) returns and       *)
(* brings every ledger entry and every TargetList score back to its value  *)
(* before the first change.                                                *)
C20_StakeUpdateRoundTrip ==
    [][\A who \in DOMAIN stake :
         (/\ stake'[who] # stake[who]
          /\ last' = Call("on_stake_update", who, Some(stake[who]), "ok")
          /\ who \in validators \/ who \in DOMAIN nominations
          /\ \A t \in (IF who \in validators THEN {who} ELSE nominations[who]) :
                t \in DOMAIN ApprovalStake /\ ApprovalStake[t] >= stake[who])
         => LET back == on_stake_update(Staking, Tracker', who, Some(stake'[who]))
            IN  /\ ~back.panic
                /\ back.T.ApprovalStake = ApprovalStake
                /\ back.T.TargetList = TargetList]_vars

C20_Witness ==
    /\ last = Call("on_stake_update", NominatorId, Some(1), "ok")
    /\ stake[NominatorId] = MaxStake
    /\ stake[UsualUser] = 1
    /\ nominations[NominatorId] = Targets
    /\ DOMAIN TargetList = Targets
    /\ ApprovalStake[ValidatorId] = MaxBalance
    /\ TargetList[ValidatorId] = MaxBalance
    /\ ApprovalStake[Validator2Id] = MaxStake
    /\ TargetList[Validator2Id] = MaxStake

====
